---- MODULE Spec2Model ----
(***************************************************************************)
(* Model of olac/pipeline.py: the BatchQueue, the Pipeline with its two    *)
(* worker threads (prediction worker, labelling worker), the pool that     *)
(* runs them, and the example policies OnlinePredictor/ThresholdLabeller.  *)
(***************************************************************************)
EXTENDS Integers, Sequences, FiniteSets, TLC

\* ------------------------------------------------------------------ bounds
\* longest input stream (number of points the data_generator yields)
MaxStream == 4
\* items the producers of the queue harness put in total
MaxItems == 3
\* producer threads of the queue harness
MaxProducers == 2
\* get_all calls the consumer of the queue harness makes
MaxCalls == 3

\* ------------------------------------------------------- policy parameters
\* ThresholdLabeller.threshold values tried; the last one is never exceeded
\* by labelling_queue.qsize(), so buy_labels_condition is always false
Thresholds == {0, 1, MaxStream}
\* ThresholdLabeller.prob and the draws of np.random.uniform(0, 1), in percent
Probs == {0, 50, 100}
Draws == {0, 99}
\* predictors: OnlinePredictor, and a predictor that never trains and always
\* predicts label 0
Predictors == {"online", "static"}

VARIABLES
    \* configuration of the Pipeline (constructor arguments); absent names
    \* the argument left at None, if any
    n_points, predictor, threshold, prob, may_raise, absent,
    \* thread communication objects
    labelling_queue, training_queue, stop_flag,
    \* pipeline.model: the batches partial_fit has been called with
    model,
    \* prediction worker: position, enumerate index, get_all locals, value
    \* train_condition returned, value do_prediction returned, callbacks
    \* called so far for the current point
    p_pc, p_i, p_n, p_points, p_cond, p_y, p_calls,
    \* labelling worker: position, get_all locals, buy_labels result being
    \* forwarded, accumulators
    l_pc, l_n, l_points, labelled_points, training_set, eval_set,
    labels_bought,
    \* Pipeline.run and the pool: position of run, AsyncResult of each job,
    \* result handler thread of the pool, returned value
    run_pc, lab_job, pred_job, result_handler, results,
    \* history: points put on and points removed from the labelling queue,
    \* points put on the training queue, number of stop_flag.set() calls
    lq_put, lq_got, tq_put, flag_sets,
    \* a BatchQueue on its own, with producer threads and one consumer thread:
    \* the queue, the items of each producer, how many of them it has put and
    \* through which method, the consumer's position and get_all locals, the
    \* results of its get_all calls, and history: enqueue order, queue
    \* contents when the running get_all read qsize()
    bq, n_producers, prod_items, prod_k, prod_api,
    cons_pc, cons_n, cons_output, cons_results, q_put, cons_snapshot

qvars == <<bq, n_producers, prod_items, prod_k, prod_api,
           cons_pc, cons_n, cons_output, cons_results, q_put, cons_snapshot>>

pvars == <<n_points, predictor, threshold, prob, may_raise, absent,
           labelling_queue, training_queue, stop_flag, model,
           p_pc, p_i, p_n, p_points, p_cond, p_y, p_calls,
           l_pc, l_n, l_points, labelled_points, training_set, eval_set,
           labels_bought,
           run_pc, lab_job, pred_job, result_handler, results,
           lq_put, lq_got, tq_put, flag_sets>>

config == <<n_points, predictor, threshold, prob, may_raise, absent>>
pred_locals == <<p_pc, p_i, p_n, p_points, p_cond, p_y, p_calls>>
pred_trace == <<p_cond, p_y, p_calls>>
lab_locals == <<l_pc, l_n, l_points, labelled_points, training_set, eval_set,
                labels_bought>>
history == <<lq_put, lq_got, tq_put, flag_sets>>
pool_state == <<run_pc, lab_job, pred_job, result_handler, results>>

\* --------------------------------------------------------------- BatchQueue
\* put as a LifoQueue would do it: the new item goes in front
put_front(q, item) == <<item>> \o q

\* Queue.qsize / Queue.empty / Queue.put (unbounded queue: put never waits)
qsize(q) == Len(q)
empty(q) == Len(q) = 0
put(q, item) == Append(q, item)
\* Queue.get blocks while the queue is empty; otherwise removes the head
can_get(q) == Len(q) > 0
get_item(q) == Head(q)
get_rest(q) == Tail(q)

\* QueuePoint(x, i, y_pred, prob, y_true); the feature vector is not modelled
QueuePoint(i, y_pred) == [index |-> i, predicted_label |-> y_pred]

\* indices of a sequence of QueuePoints
Indices(s) == [k \in 1..Len(s) |-> s[k].index]
Range(s) == {s[k] : k \in 1..Len(s)}

\* ------------------------------------------------------------ construction
\* the arguments run() requires
Arguments == {"data_generator", "model", "predictor", "labeller"}

\* the arguments of Pipeline(...) and of the policies: a stream of n_points
\* points, a predictor, a ThresholdLabeller(threshold, prob), and whether the
\* policies' callbacks can raise
ConfigInit ==
    /\ n_points \in 0..MaxStream
    /\ predictor \in Predictors
    /\ threshold \in Thresholds
    /\ prob \in Probs
    /\ may_raise \in BOOLEAN
    /\ absent \in Arguments \cup {"nothing"}

\* the arguments of scenario A: 5 points, a labeller that buys every queued
\* point as soon as the queue holds one
ScenarioAConfig ==
    /\ n_points = 5
    /\ predictor \in Predictors
    /\ threshold = 0
    /\ prob = 100
    /\ may_raise \in BOOLEAN
    /\ absent \in Arguments \cup {"nothing"}

\* Pipeline.__init__: empty queues, unset stop flag; no worker is running
PipelineInit ==
    /\ labelling_queue = <<>>
    /\ training_queue = <<>>
    /\ stop_flag = FALSE
    /\ model = <<>>
    /\ p_pc = "idle" /\ p_i = 0 /\ p_n = 0 /\ p_points = <<>>
    /\ p_cond = FALSE /\ p_y = "none" /\ p_calls = <<>>
    /\ l_pc = "idle" /\ l_n = 0 /\ l_points = <<>>
    /\ labelled_points = <<>> /\ training_set = <<>> /\ eval_set = <<>>
    /\ labels_bought = 0
    /\ run_pc = "init" /\ lab_job = "none" /\ pred_job = "none"
    /\ result_handler = "alive" /\ results = <<>>
    /\ lq_put = <<>> /\ lq_got = <<>> /\ tq_put = <<>> /\ flag_sets = 0

\* ------------------------------------------------------- prediction worker
\* the loop stops one point early
for_point_early(i) == IF i < n_points - 1 THEN "train_condition" ELSE "set_flag"

\* for i, new_point in enumerate(self.data_generator): position reached when
\* the generator is asked for point i
for_point(i) == IF i < n_points THEN "train_condition" ELSE "set_flag"

\* the condition of the base class stub: return True
train_condition_always == TRUE

\* predictor.train_condition(pipeline)
train_condition ==
    IF predictor = "online" THEN ~empty(training_queue) ELSE FALSE

\* predictor.do_prediction(pipeline, x): NaN while the model is not fitted
do_prediction ==
    IF predictor = "online"
    THEN (IF model = <<>> THEN "nan" ELSE "model")
    ELSE "0"

\* the condition written without its call, "if self.predictor.train_condition:",
\* which is always true
PredTrainCondition_Always ==
    /\ p_pc = "train_condition"
    /\ p_cond' = train_condition
    /\ p_calls' = Append(p_calls, "train_condition")
    /\ p_pc' = "get_all"
    /\ UNCHANGED <<qvars, config, labelling_queue, training_queue, stop_flag,
                   model, p_i, p_n, p_points, p_y, lab_locals, pool_state,
                   history>>

\* if self.predictor.train_condition(self): ...
PredTrainCondition ==
    /\ p_pc = "train_condition"
    /\ p_cond' = train_condition
    /\ p_calls' = Append(p_calls, "train_condition")
    /\ p_pc' = IF train_condition THEN "get_all" ELSE "do_prediction"
    /\ UNCHANGED <<qvars, config, labelling_queue, training_queue, stop_flag,
                   model, p_i, p_n, p_points, p_y, lab_locals, pool_state,
                   history>>

\* train_pipeline_model is entered: training_queue.get_all() reads qsize()
PredGetAllSize ==
    /\ p_pc = "get_all"
    /\ p_calls' = Append(p_calls, "train_pipeline_model")
    /\ p_n' = qsize(training_queue)
    /\ p_points' = <<>>
    /\ p_pc' = IF qsize(training_queue) = 0 THEN "partial_fit" ELSE "get"
    /\ UNCHANGED <<qvars, config, labelling_queue, training_queue, stop_flag,
                   model, p_i, p_cond, p_y, lab_locals, pool_state, history>>

\* get_all reading the head of the training queue without removing it
PredGetAllGet_Peek ==
    /\ p_pc = "get"
    /\ can_get(training_queue)
    /\ p_points' = Append(p_points, get_item(training_queue))
    /\ p_n' = p_n - 1
    /\ p_pc' = IF p_n = 1 THEN "partial_fit" ELSE "get"
    /\ UNCHANGED <<qvars, config, labelling_queue, training_queue, stop_flag,
                   model, p_i, pred_trace, lab_locals, pool_state, history>>

\* train_pipeline_model: one output.append(self.get()) of get_all
PredGetAllGet ==
    /\ p_pc = "get"
    /\ can_get(training_queue)
    /\ p_points' = Append(p_points, get_item(training_queue))
    /\ training_queue' = get_rest(training_queue)
    /\ p_n' = p_n - 1
    /\ p_pc' = IF p_n = 1 THEN "partial_fit" ELSE "get"
    /\ UNCHANGED <<qvars, config, labelling_queue, stop_flag, model,
                   p_i, pred_trace, lab_locals, pool_state, history>>

\* train_pipeline_model: np.vstack raises on an empty batch, otherwise
\* pipeline.model.partial_fit(X_train, y_train) and the method returns
PredPartialFit ==
    /\ p_pc = "partial_fit"
    /\ IF p_points = <<>>
       THEN p_pc' = "failed" /\ UNCHANGED <<model, p_points>>
       ELSE /\ p_pc' = "do_prediction"
            /\ model' = Append(model, Indices(p_points))
            /\ p_points' = <<>>
    /\ UNCHANGED <<qvars, config, labelling_queue, training_queue, stop_flag,
                   p_i, p_n, pred_trace, lab_locals, pool_state, history>>

\* a do_prediction that fits the model on the point it is asked about
PredDoPrediction_Fits ==
    /\ p_pc = "do_prediction"
    /\ p_y' = do_prediction
    /\ p_calls' = Append(p_calls, "do_prediction")
    /\ model' = Append(model, <<p_i>>)
    /\ p_pc' = "put"
    /\ UNCHANGED <<qvars, config, labelling_queue, training_queue, stop_flag,
                   p_i, p_n, p_points, p_cond, lab_locals, pool_state,
                   history>>

\* y_pred, prob = self.predictor.do_prediction(self, x)
PredDoPrediction ==
    /\ p_pc = "do_prediction"
    /\ p_y' = do_prediction
    /\ p_calls' = Append(p_calls, "do_prediction")
    /\ p_pc' = "put"
    /\ UNCHANGED <<qvars, config, labelling_queue, training_queue, stop_flag,
                   model, p_i, p_n, p_points, p_cond, lab_locals, pool_state,
                   history>>

\* put on a labelling queue built with maxsize=2: waits while it is full
PredPut_Bounded ==
    /\ p_pc = "put"
    /\ Len(labelling_queue) < 2
    /\ labelling_queue' = put(labelling_queue, QueuePoint(p_i, p_y))
    /\ lq_put' = Append(lq_put, QueuePoint(p_i, p_y))
    /\ p_i' = p_i + 1
    /\ p_pc' = for_point(p_i + 1)
    /\ p_cond' = FALSE /\ p_y' = "none" /\ p_calls' = <<>>
    /\ UNCHANGED <<qvars, config, training_queue, stop_flag, model,
                   p_n, p_points, lab_locals, pool_state,
                   lq_got, tq_put, flag_sets>>

\* self.labelling_queue.put(QueuePoint(x, i, y_pred, prob, y_true)); then the
\* for loop asks the generator for the next point
PredPut ==
    /\ p_pc = "put"
    /\ labelling_queue' = put(labelling_queue, QueuePoint(p_i, p_y))
    /\ lq_put' = Append(lq_put, QueuePoint(p_i, p_y))
    /\ p_i' = p_i + 1
    /\ p_pc' = for_point(p_i + 1)
    /\ p_cond' = FALSE /\ p_y' = "none" /\ p_calls' = <<>>
    /\ UNCHANGED <<qvars, config, training_queue, stop_flag, model,
                   p_n, p_points, lab_locals, pool_state,
                   lq_got, tq_put, flag_sets>>

\* the worker returns without setting the stop flag
PredSetFlag_Forgotten ==
    /\ p_pc = "set_flag"
    /\ p_pc' = "done"
    /\ UNCHANGED <<qvars, config, labelling_queue, training_queue, stop_flag,
                   model, p_i, p_n, p_points, pred_trace, lab_locals,
                   pool_state, history>>

\* self._stop_flag.set(), then the worker returns
PredSetFlag ==
    /\ p_pc = "set_flag"
    /\ stop_flag' = TRUE
    /\ flag_sets' = flag_sets + 1
    /\ p_pc' = "done"
    /\ UNCHANGED <<qvars, config, labelling_queue, training_queue, model,
                   p_i, p_n, p_points, pred_trace, lab_locals, pool_state,
                   lq_put, lq_got, tq_put>>

\* a Predictor callback raises: the exception leaves _prediction_worker
PredRaise ==
    /\ may_raise
    /\ p_pc \in {"train_condition", "get_all", "do_prediction"}
    /\ p_pc' = "failed"
    /\ UNCHANGED <<qvars, config, labelling_queue, training_queue, stop_flag,
                   model, p_i, p_n, p_points, pred_trace, lab_locals,
                   pool_state, history>>

PredNext ==
    \/ PredTrainCondition
    \/ PredGetAllSize
    \/ PredGetAllGet
    \/ PredPartialFit
    \/ PredDoPrediction
    \/ PredPut
    \/ PredSetFlag

\* -------------------------------------------------------- labelling worker
\* the comparison written as n >= self.threshold
buy_labels_condition_ge == qsize(labelling_queue) >= threshold

\* ThresholdLabeller.buy_labels_condition: n > self.threshold
buy_labels_condition == qsize(labelling_queue) > threshold

\* np.random.uniform(0, 1) < self.prob, for the draw u
is_labelled(u) == u < prob

\* every drained point is appended to labelled_points, whatever its draw
split_labelled_all(points, d, k) == points

\* ThresholdLabeller.buy_labels, the loop over the drained points: those whose
\* draw d[k] is below prob are labelled, the others unlabelled
RECURSIVE split_labelled(_, _, _)
split_labelled(points, d, k) ==
    IF k > Len(points) THEN <<>>
    ELSE (IF is_labelled(d[k]) THEN <<points[k]>> ELSE <<>>)
         \o split_labelled(points, d, k + 1)

\* the else branch of the loop forgets the point
split_unlabelled_lost(points, d, k) == <<>>

RECURSIVE split_unlabelled(_, _, _)
split_unlabelled(points, d, k) ==
    IF k > Len(points) THEN <<>>
    ELSE (IF is_labelled(d[k]) THEN <<>> ELSE <<points[k]>>)
         \o split_unlabelled(points, d, k + 1)

\* the worker clears the stop flag when it leaves the loop
LabCheckFlag_Clears ==
    /\ l_pc = "while"
    /\ l_pc' = IF stop_flag THEN "done" ELSE "buy_labels_condition"
    /\ stop_flag' = FALSE
    /\ UNCHANGED <<qvars, config, labelling_queue, training_queue, model,
                   pred_locals, l_n, l_points, labelled_points, training_set,
                   eval_set, labels_bought, pool_state, history>>

\* while not self._stop_flag.is_set(): ...; return training_set, eval_set
LabCheckFlag ==
    /\ l_pc = "while"
    /\ l_pc' = IF stop_flag THEN "done" ELSE "buy_labels_condition"
    /\ UNCHANGED <<qvars, config, labelling_queue, training_queue, stop_flag, model,
                   pred_locals, l_n, l_points, labelled_points, training_set,
                   eval_set, labels_bought, pool_state,
                   lq_put, lq_got, tq_put, flag_sets>>

\* if self.labeller.buy_labels_condition(self): ...
LabBuyCondition ==
    /\ l_pc = "buy_labels_condition"
    /\ l_pc' = IF buy_labels_condition THEN "get_all" ELSE "while"
    /\ UNCHANGED <<qvars, config, labelling_queue, training_queue, stop_flag, model,
                   pred_locals, l_n, l_points, labelled_points, training_set,
                   eval_set, labels_bought, pool_state,
                   lq_put, lq_got, tq_put, flag_sets>>

\* buy_labels: labelling_queue.get_all() reads qsize()
LabGetAllSize ==
    /\ l_pc = "get_all"
    /\ l_n' = qsize(labelling_queue)
    /\ l_points' = <<>>
    /\ l_pc' = IF qsize(labelling_queue) = 0 THEN "label" ELSE "get"
    /\ UNCHANGED <<qvars, config, labelling_queue, training_queue, stop_flag, model,
                   pred_locals, labelled_points, training_set, eval_set,
                   labels_bought, pool_state, history>>

\* get_all reading the head of the queue without removing it
LabGetAllGet_Peek ==
    /\ l_pc = "get"
    /\ can_get(labelling_queue)
    /\ l_points' = Append(l_points, get_item(labelling_queue))
    /\ lq_got' = Append(lq_got, get_item(labelling_queue))
    /\ l_n' = l_n - 1
    /\ l_pc' = IF l_n = 1 THEN "label" ELSE "get"
    /\ UNCHANGED <<qvars, config, labelling_queue, training_queue, stop_flag,
                   model, pred_locals, labelled_points, training_set, eval_set,
                   labels_bought, pool_state, lq_put, tq_put, flag_sets>>

\* buy_labels: one output.append(self.get()) of get_all
LabGetAllGet ==
    /\ l_pc = "get"
    /\ can_get(labelling_queue)
    /\ l_points' = Append(l_points, get_item(labelling_queue))
    /\ lq_got' = Append(lq_got, get_item(labelling_queue))
    /\ labelling_queue' = get_rest(labelling_queue)
    /\ l_n' = l_n - 1
    /\ l_pc' = IF l_n = 1 THEN "label" ELSE "get"
    /\ UNCHANGED <<qvars, config, training_queue, stop_flag, model,
                   pred_locals, labelled_points, training_set, eval_set,
                   labels_bought, pool_state, lq_put, tq_put, flag_sets>>

\* the worker forwarding the whole drained batch to the training queue
LabLabel_ForwardsAll ==
    /\ l_pc = "label"
    /\ \E d \in [1..Len(l_points) -> Draws] :
         /\ training_set' = training_set \o split_labelled(l_points, d, 1)
         /\ eval_set' = eval_set \o split_unlabelled(l_points, d, 1)
         /\ labels_bought' =
                labels_bought + Len(split_labelled(l_points, d, 1))
    /\ labelled_points' = l_points
    /\ l_pc' = IF l_points = <<>> THEN "while" ELSE "put_all"
    /\ l_points' = <<>>
    /\ UNCHANGED <<qvars, config, labelling_queue, training_queue, stop_flag,
                   model, pred_locals, l_n, pool_state, history>>

\* buy_labels splits the drained points by random draws and returns; the
\* worker accumulates: training_set += labelled, eval_set += unlabelled
LabLabel ==
    /\ l_pc = "label"
    /\ \E d \in [1..Len(l_points) -> Draws] :
         /\ labelled_points' = split_labelled(l_points, d, 1)
         /\ training_set' = training_set \o split_labelled(l_points, d, 1)
         /\ eval_set' = eval_set \o split_unlabelled(l_points, d, 1)
         /\ labels_bought' =
                labels_bought + Len(split_labelled(l_points, d, 1))
         /\ l_pc' = IF split_labelled(l_points, d, 1) = <<>>
                    THEN "while" ELSE "put_all"
    /\ l_points' = <<>>
    /\ UNCHANGED <<qvars, config, labelling_queue, training_queue, stop_flag, model,
                   pred_locals, l_n, pool_state,
                   lq_put, lq_got, tq_put, flag_sets>>

\* self.training_queue.put_all(labelled_points): one self.put(i) of the loop
LabPutAll ==
    /\ l_pc = "put_all"
    /\ training_queue' = put(training_queue, Head(labelled_points))
    /\ tq_put' = Append(tq_put, Head(labelled_points))
    /\ labelled_points' = Tail(labelled_points)
    /\ l_pc' = IF Len(labelled_points) = 1 THEN "while" ELSE "put_all"
    /\ UNCHANGED <<qvars, config, labelling_queue, stop_flag, model,
                   pred_locals, l_n, l_points, training_set, eval_set,
                   labels_bought, pool_state, lq_put, lq_got, flag_sets>>

\* a Labeller callback raises: the exception leaves _labelling_worker
LabRaise ==
    /\ may_raise
    /\ l_pc \in {"buy_labels_condition", "get_all"}
    /\ l_pc' = "failed"
    /\ UNCHANGED <<qvars, config, labelling_queue, training_queue, stop_flag, model,
                   pred_locals, l_n, l_points, labelled_points, training_set,
                   eval_set, labels_bought, pool_state,
                   lq_put, lq_got, tq_put, flag_sets>>

LabNext ==
    \/ LabCheckFlag
    \/ LabBuyCondition
    \/ LabGetAllSize
    \/ LabGetAllGet
    \/ LabLabel
    \/ LabPutAll

\* --------------------------------------------------------- run and the pool
\* run: one of the four arguments is None: assert prop is not None raises
\* AssertionError before the pool is created
RunAssertFails ==
    /\ run_pc = "init"
    /\ absent # "nothing"
    /\ run_pc' = "raised"
    /\ UNCHANGED <<qvars, config, labelling_queue, training_queue, stop_flag,
                   model, pred_locals, lab_locals, lab_job, pred_job,
                   result_handler, results, history>>

\* run without its asserts: the workers are submitted whatever is absent
RunStart_NoAssert ==
    /\ run_pc = "init"
    /\ run_pc' = "join"
    /\ lab_job' = "pending"
    /\ pred_job' = "pending"
    /\ l_pc' = "while"
    /\ p_pc' = for_point(0)
    /\ UNCHANGED <<qvars, config, labelling_queue, training_queue, stop_flag,
                   model, p_i, p_n, p_points, pred_trace, l_n, l_points,
                   labelled_points, training_set, eval_set, labels_bought,
                   result_handler, results, history>>

\* run: the asserts pass; both workers are submitted with apply_async, then
\* close() and join()
RunStart ==
    /\ run_pc = "init"
    /\ absent = "nothing"
    /\ run_pc' = "join"
    /\ lab_job' = "pending"
    /\ pred_job' = "pending"
    /\ l_pc' = "while"
    /\ p_pc' = for_point(0)
    /\ UNCHANGED <<qvars, config, labelling_queue, training_queue, stop_flag, model,
                   p_i, p_n, p_points, pred_trace, l_n, l_points,
                   labelled_points, training_set, eval_set, labels_bought,
                   result_handler, results, history>>

\* err_handler, the error_callback of both jobs: raise e.  The pool calls it
\* on its result handler thread before it marks the job ready, so the raise
\* ends that thread and the job stays pending; a job that returned is marked
\* ready.
HandleLabResult ==
    /\ result_handler = "alive"
    /\ lab_job = "pending"
    /\ l_pc \in {"done", "failed"}
    /\ IF l_pc = "failed"
       THEN result_handler' = "dead" /\ UNCHANGED lab_job
       ELSE lab_job' = "ready" /\ UNCHANGED result_handler
    /\ UNCHANGED <<qvars, config, labelling_queue, training_queue, stop_flag, model,
                   pred_locals, lab_locals, run_pc, pred_job, results,
                   lq_put, lq_got, tq_put, flag_sets>>

HandlePredResult ==
    /\ result_handler = "alive"
    /\ pred_job = "pending"
    /\ p_pc \in {"done", "failed"}
    /\ IF p_pc = "failed"
       THEN result_handler' = "dead" /\ UNCHANGED pred_job
       ELSE pred_job' = "ready" /\ UNCHANGED result_handler
    /\ UNCHANGED <<qvars, config, labelling_queue, training_queue, stop_flag, model,
                   pred_locals, lab_locals, run_pc, lab_job, results,
                   lq_put, lq_got, tq_put, flag_sets>>

\* pool.join() returns once both jobs are ready; results.get() returns the
\* labelling worker's value, or raises the exception it ended with
RunReturn ==
    /\ run_pc = "join"
    /\ lab_job = "ready"
    /\ pred_job = "ready"
    /\ IF l_pc = "failed"
       THEN run_pc' = "raised" /\ UNCHANGED results
       ELSE run_pc' = "returned" /\ results' = <<training_set, eval_set>>
    /\ UNCHANGED <<qvars, config, labelling_queue, training_queue, stop_flag, model,
                   pred_locals, lab_locals, lab_job, pred_job, result_handler,
                   lq_put, lq_got, tq_put, flag_sets>>

PoolNext ==
    \/ RunAssertFails
    \/ RunStart
    \/ HandleLabResult
    \/ HandlePredResult
    \/ RunReturn

\* ------------------------------------------- a BatchQueue used on its own
Producers == 1..MaxProducers

\* n[1] + ... + n[k]
RECURSIVE SumUpTo(_, _)
SumUpTo(n, k) == IF k = 0 THEN 0 ELSE n[k] + SumUpTo(n, k - 1)

\* the items producer p puts: n items tagged with their producer and position
ItemsOf(p, n) == [k \in 1..n |-> [producer |-> p, seq |-> k]]

QueueInit ==
    /\ bq = <<>>
    /\ n_producers \in 1..MaxProducers
    /\ \E n \in [Producers -> 0..MaxItems] :
          /\ \A p \in Producers : p > n_producers => n[p] = 0
          /\ SumUpTo(n, MaxProducers) <= MaxItems
          /\ prod_items = [p \in Producers |-> ItemsOf(p, n[p])]
    /\ prod_k = [p \in Producers |-> 0]
    /\ prod_api \in [Producers -> {"put", "put_all"}]
    /\ \A p \in Producers : p > n_producers => prod_api[p] = "put"
    /\ cons_pc = "idle" /\ cons_n = 0 /\ cons_output = <<>>
    /\ cons_results = <<>> /\ q_put = <<>> /\ cons_snapshot = <<>>

\* the harness at rest (while the pipeline runs)
QueueIdle ==
    /\ bq = <<>>
    /\ n_producers = 1
    /\ prod_items = [p \in Producers |-> <<>>]
    /\ prod_k = [p \in Producers |-> 0]
    /\ prod_api = [p \in Producers |-> "put"]
    /\ cons_pc = "idle" /\ cons_n = 0 /\ cons_output = <<>>
    /\ cons_results = <<>> /\ q_put = <<>> /\ cons_snapshot = <<>>

\* the pipeline at rest (while the harness runs)
PipelineIdle ==
    /\ PipelineInit
    /\ n_points = 0 /\ predictor = "online" /\ threshold = 0 /\ prob = 0
    /\ may_raise = FALSE /\ absent = "nothing"

\* a producer thread calls put(item) with its next item
ProducerPut(p) ==
    /\ prod_api[p] = "put"
    /\ prod_k[p] < Len(prod_items[p])
    /\ bq' = put(bq, prod_items[p][prod_k[p] + 1])
    /\ q_put' = Append(q_put, prod_items[p][prod_k[p] + 1])
    /\ prod_k' = [prod_k EXCEPT ![p] = @ + 1]
    /\ UNCHANGED <<pvars, n_producers, prod_items, prod_api, cons_pc, cons_n,
                   cons_output, cons_results, cons_snapshot>>

\* a producer thread inside put_all(items): one self.put(i) of the loop
ProducerPutAll(p) ==
    /\ prod_api[p] = "put_all"
    /\ prod_k[p] < Len(prod_items[p])
    /\ bq' = put(bq, prod_items[p][prod_k[p] + 1])
    /\ q_put' = Append(q_put, prod_items[p][prod_k[p] + 1])
    /\ prod_k' = [prod_k EXCEPT ![p] = @ + 1]
    /\ UNCHANGED <<pvars, n_producers, prod_items, prod_api, cons_pc, cons_n,
                   cons_output, cons_results, cons_snapshot>>

\* the consumer calls get_all: output = [], range(self.qsize())
ConsumerGetAllSize ==
    /\ cons_pc = "idle"
    /\ Len(cons_results) < MaxCalls
    /\ cons_n' = qsize(bq)
    /\ cons_output' = <<>>
    /\ cons_snapshot' = bq
    /\ cons_pc' = IF qsize(bq) = 0 THEN "return" ELSE "get"
    /\ UNCHANGED <<pvars, bq, n_producers, prod_items, prod_k, prod_api,
                   cons_results, q_put>>

\* get_all looping until the queue is empty instead of qsize() times
ConsumerGetAllGet_UntilEmpty ==
    /\ cons_pc = "get"
    /\ can_get(bq)
    /\ cons_output' = Append(cons_output, get_item(bq))
    /\ bq' = get_rest(bq)
    /\ cons_n' = cons_n - 1
    /\ cons_pc' = IF get_rest(bq) = <<>> THEN "return" ELSE "get"
    /\ UNCHANGED <<pvars, n_producers, prod_items, prod_k, prod_api,
                   cons_results, q_put, cons_snapshot>>

\* get_all: one output.append(self.get()); self.task_done()
ConsumerGetAllGet ==
    /\ cons_pc = "get"
    /\ can_get(bq)
    /\ cons_output' = Append(cons_output, get_item(bq))
    /\ bq' = get_rest(bq)
    /\ cons_n' = cons_n - 1
    /\ cons_pc' = IF cons_n = 1 THEN "return" ELSE "get"
    /\ UNCHANGED <<pvars, n_producers, prod_items, prod_k, prod_api,
                   cons_results, q_put, cons_snapshot>>

\* get_all: return output
ConsumerGetAllReturn ==
    /\ cons_pc = "return"
    /\ cons_results' = Append(cons_results, cons_output)
    /\ cons_output' = <<>>
    /\ cons_pc' = "idle"
    /\ UNCHANGED <<pvars, bq, n_producers, prod_items, prod_k, prod_api,
                   cons_n, q_put, cons_snapshot>>

vars == <<pvars, qvars>>

\* ------------------------------------------------------------ specifications
Init == ConfigInit /\ PipelineInit /\ QueueIdle

Next ==
    \/ PredNext
    \/ PredRaise
    \/ LabNext
    \/ LabRaise
    \/ PoolNext

Spec == Init /\ [][Next]_vars

\* every thread that can take a step eventually takes one
Fairness ==
    /\ WF_vars(PredNext)
    /\ WF_vars(LabNext)
    /\ WF_vars(PoolNext)

FairSpec == Init /\ [][Next]_vars /\ Fairness

\* only the prediction worker is scheduled fairly (and run() starts it)
PredFairSpec ==
    Init /\ [][Next]_vars /\ WF_vars(PredNext) /\ WF_vars(RunStart)

\* the runs of scenario A
ScenarioAInit == ScenarioAConfig /\ PipelineInit /\ QueueIdle

ScenarioASpec == ScenarioAInit /\ [][Next]_vars

QInit == PipelineIdle /\ QueueInit

QNext ==
    \/ \E p \in Producers : ProducerPut(p)
    \/ \E p \in Producers : ProducerPutAll(p)
    \/ ConsumerGetAllSize
    \/ ConsumerGetAllGet
    \/ ConsumerGetAllReturn

QSpec == QInit /\ [][QNext]_vars

\* ------------------------------------------------------------------ helpers
RECURSIVE Flatten(_)
Flatten(ss) == IF ss = <<>> THEN <<>> ELSE Head(ss) \o Flatten(Tail(ss))

NoDuplicates(s) == \A j, k \in 1..Len(s) : j # k => s[j] # s[k]

\* the labelling worker is inside one buy iteration (lines 199-208)
InBuyIteration == l_pc \in {"get_all", "get", "label", "put_all"}

\* all four arguments of the Pipeline are given
Configured == absent = "nothing"

\* the labeller "buys everything as soon as the queue holds a point"
BuysAll == threshold = 0 /\ prob = 100

\* the labeller's buy_labels_condition can never be true: the labelling
\* queue never holds more than the n_points points of the stream
NeverBuys == threshold >= n_points

\* ------------------------------------------------------------------- claims

\* C1: when the labelling worker's loop has exited, every point the
\* prediction worker put on the labelling queue (all puts precede the stop
\* flag) has been returned by a get_all of the labelling worker, for a
\* labeller that buys whenever the queue is non-empty.
C1_NoDroppedFinalBatch ==
    (threshold = 0 /\ l_pc = "done") => Range(lq_put) \subseteq Range(lq_got)

\* C2: scenario A (5 points, predictor that never trains, labeller that buys
\* every queued point as soon as there is one): run() returns a training_set
\* of exactly the 5 points with indices 0..4 and an empty eval_set.
C2_ScenarioA ==
    (n_points = 5 /\ predictor = "static" /\ BuysAll /\ run_pc = "returned")
        => /\ Len(results[1]) = 5
           /\ Range(Indices(results[1])) = 0..4
           /\ results[2] = <<>>

\* C3: once a worker has failed, run() eventually raises to its caller (it
\* neither returns normally nor blocks forever).
C3_FailurePropagates ==
    /\ [](run_pc = "returned" => (p_pc # "failed" /\ l_pc # "failed"))
    /\ ((p_pc = "failed" \/ l_pc = "failed") ~> (run_pc = "raised"))

\* C4: whenever the labelling worker is not inside a buy iteration, and when
\* run() has returned, len(training_set) + len(eval_set) is the number of
\* points removed from the labelling queue, no index occurs twice across the
\* two sets, and every index is a stream index 0..n_points-1.
C4_Conservation ==
    /\ ~InBuyIteration =>
          /\ Len(training_set) + Len(eval_set) = Len(lq_got)
          /\ NoDuplicates(Indices(training_set \o eval_set))
          /\ Range(Indices(training_set \o eval_set)) \subseteq 0..(n_points - 1)
    /\ run_pc = "returned" =>
          /\ Len(results[1]) + Len(results[2]) = Len(lq_got)
          /\ NoDuplicates(Indices(results[1] \o results[2]))
          /\ Range(Indices(results[1] \o results[2])) \subseteq 0..(n_points - 1)

\* the labelling worker is between buy iterations after a batch that was
\* split into labelled and unlabelled points
C4_Witness ==
    /\ l_pc = "while"
    /\ training_set # <<>>
    /\ eval_set # <<>>
    /\ Len(lq_got) >= 3

\* C5: when the pipeline is fully configured and no callback raises, under fair scheduling the prediction worker
\* sets the stop flag, the labelling worker leaves its loop, and run()
\* returns the labelling worker's (training_set, eval_set).
C5_Termination ==
    (Configured /\ ~may_raise) =>
        <>(/\ run_pc = "returned"
           /\ stop_flag
           /\ p_pc = "done"
           /\ l_pc = "done"
           /\ results = <<training_set, eval_set>>)

\* run() has returned for the longest stream, after labels were bought
C5_Witness ==
    /\ ~may_raise
    /\ run_pc = "returned"
    /\ n_points = MaxStream
    /\ training_set # <<>>

\* C6: with a labeller whose buy condition is never true, no point is ever
\* removed from the labelling queue, nothing is put on the training queue,
\* both sets stay empty, and (no callback raising) the run completes and
\* returns two empty sets.
C6_ScenarioB ==
    /\ [](NeverBuys =>
            /\ lq_got = <<>>
            /\ tq_put = <<>>
            /\ training_set = <<>>
            /\ eval_set = <<>>)
    /\ ((Configured /\ NeverBuys /\ ~may_raise) =>
            <>(run_pc = "returned" /\ results = << <<>>, <<>> >>))

\* the run has returned with all points of the longest stream still queued
C6_Witness ==
    /\ NeverBuys
    /\ n_points = MaxStream
    /\ run_pc = "returned"
    /\ Len(labelling_queue) = MaxStream

\* C7: the stop flag is unset at construction; set() is called at most once
\* and only by the prediction worker's last step, exactly once in a run whose
\* callbacks do not raise (it has been called when the prediction worker is
\* done and when run() has returned); no step clears the flag.
C7_OneShotFlag ==
    /\ [](/\ run_pc = "init" => ~stop_flag
          /\ flag_sets <= 1
          /\ stop_flag <=> flag_sets = 1
          /\ (p_pc = "done" \/ run_pc = "returned") => flag_sets = 1)
    /\ ((Configured /\ ~may_raise) => <>(flag_sets = 1))
    /\ [][stop_flag => stop_flag']_vars
    /\ [][stop_flag' # stop_flag => (p_pc = "set_flag" /\ p_pc' = "done")]_vars

\* the flag is set and the labelling worker has taken its exit after it
C7_Witness ==
    /\ stop_flag
    /\ flag_sets = 1
    /\ l_pc = "done"
    /\ p_pc = "done"

\* C8: when the stop flag is set every point of the stream has been put on
\* the labelling queue, and no step taken with the flag set puts anything
\* on the labelling queue.
C8_SignalAfterLastPut ==
    /\ [](stop_flag => Indices(lq_put) = [k \in 1..n_points |-> k - 1])
    /\ [][stop_flag => (lq_put' = lq_put
                        /\ Len(labelling_queue') <= Len(labelling_queue))]_vars

\* the flag is set after a stream of several points, some still queued
C8_Witness ==
    /\ stop_flag
    /\ n_points >= 2
    /\ Len(lq_put) = n_points
    /\ labelling_queue # <<>>

\* C9: a get_all returns exactly the items that were in the queue when it
\* read qsize(), in order, also with producers putting meanwhile; what is
\* put later stays queued for a later get_all; over all get_all calls no
\* item is returned twice or lost.
C9_SnapshotDrain ==
    /\ cons_pc = "return" => cons_output = cons_snapshot
    /\ cons_pc = "get" =>
          /\ cons_n <= Len(bq)
          /\ cons_output \o SubSeq(bq, 1, cons_n) = cons_snapshot
    /\ Flatten(cons_results) \o cons_output \o bq = q_put
    /\ NoDuplicates(q_put)

\* a get_all is about to return a non-empty result while items that were put
\* during the drain wait in the queue
C9_Witness ==
    /\ cons_pc = "return"
    /\ Len(cons_output) >= 2
    /\ bq # <<>>
    /\ n_producers >= 2

\* the items of producer p in s, in the order of s
OfProducer(s, p) == SelectSeq(s, LAMBDA x : x.producer = p)

\* C10: the concatenation of the get_all results, followed by what the
\* running get_all holds and what is still queued, is for each producer the
\* items it has put so far in the order it put them; once a single producer
\* has put its N items and they are drained, the concatenated results are
\* exactly its N items in order.
C10_FifoRoundTrip ==
    /\ \A p \in Producers :
          OfProducer(Flatten(cons_results) \o cons_output \o bq, p)
              = SubSeq(prod_items[p], 1, prod_k[p])
    /\ (/\ n_producers = 1
        /\ prod_k[1] = Len(prod_items[1])
        /\ bq = <<>>
        /\ cons_pc = "idle")
          => Flatten(cons_results) = prod_items[1]

\* one producer's items came back in order over more than one get_all
C10_Witness ==
    /\ n_producers = 1
    /\ prod_k[1] = MaxItems
    /\ prod_api[1] = "put_all"
    /\ bq = <<>>
    /\ cons_pc = "idle"
    /\ Len(cons_results) >= 2
    /\ \A k \in 1..2 : cons_results[k] # <<>>

\* C11: when one of data_generator, model, predictor, labeller is None, run()
\* raises without starting a worker: no stream point is consumed, both queues
\* stay empty, the stop flag stays unset and nothing but run's position ever
\* changes; under fair scheduling the error does come.
C11_ConfigurationError ==
    /\ [](~Configured =>
            /\ run_pc \in {"init", "raised"}
            /\ p_pc = "idle" /\ l_pc = "idle"
            /\ lab_job = "none" /\ pred_job = "none"
            /\ p_i = 0 /\ lq_put = <<>>
            /\ labelling_queue = <<>> /\ training_queue = <<>>
            /\ ~stop_flag
            /\ results = <<>>)
    /\ [][~Configured =>
            UNCHANGED <<config, labelling_queue, training_queue, stop_flag,
                        model, pred_locals, lab_locals, history>>]_vars
    /\ (~Configured => <>(run_pc = "raised"))

\* run() has raised for a pipeline built without a labeller
C11_Witness ==
    /\ absent = "labeller"
    /\ run_pc = "raised"
    /\ n_points > 0

\* C12: buy_labels_condition returns true exactly when the number of points
\* on the labelling queue has reached the threshold (qsize >= threshold).
C12_ThresholdTrigger ==
    [][(l_pc = "buy_labels_condition" /\ l_pc' \in {"get_all", "while"})
          => ((l_pc' = "get_all") <=> (qsize(labelling_queue) >= threshold))]_vars

\* the callbacks the prediction worker has to have called for a point before
\* it puts it, given what train_condition returned
CallsFor(cond) ==
    <<"train_condition">>
        \o (IF cond THEN <<"train_pipeline_model">> ELSE <<>>)
        \o <<"do_prediction">>

\* C13: the points put on the labelling queue carry the indices 0, 1, 2, ...
\* in this order; each put adds exactly one point, with the index of the
\* current stream position, after train_condition was called once,
\* train_pipeline_model iff it returned true, and do_prediction last; the
\* calls made for a point are always a prefix of that sequence.
C13_PerPointOrder ==
    /\ [](/\ Indices(lq_put) = [k \in 1..Len(lq_put) |-> k - 1]
          /\ Len(lq_put) = p_i
          /\ p_i <= n_points
          /\ Len(p_calls) <= Len(CallsFor(p_cond))
          /\ p_calls = SubSeq(CallsFor(p_cond), 1, Len(p_calls)))
    /\ [][lq_put' # lq_put =>
            /\ Len(lq_put') = Len(lq_put) + 1
            /\ lq_put'[Len(lq_put')].index = p_i
            /\ labelling_queue' = Append(labelling_queue, lq_put'[Len(lq_put')])
            /\ p_calls = CallsFor(p_cond)
            /\ p_i' = p_i + 1]_vars

\* a point other than the first is about to be put after a training call
C13_Witness ==
    /\ p_pc = "put"
    /\ p_i >= 2
    /\ p_cond
    /\ p_calls = CallsFor(TRUE)

\* C14: every point ever put on the training queue is already in
\* training_set and none of them is in eval_set; the points put are, in
\* order, the first points of training_set, and all of training_set once
\* the labelling worker has returned.
C14_Forwarding ==
    /\ Range(tq_put) \subseteq Range(training_set)
    /\ Range(tq_put) \cap Range(eval_set) = {}
    /\ Len(tq_put) <= Len(training_set)
    /\ tq_put = SubSeq(training_set, 1, Len(tq_put))
    /\ l_pc = "done" => tq_put = training_set
    /\ run_pc = "returned" => tq_put = results[1]

\* the worker has returned after forwarding several labelled points and
\* keeping back an unlabelled one
C14_Witness ==
    /\ l_pc = "done"
    /\ Len(tq_put) >= 2
    /\ eval_set # <<>>

\* C15: no stream index is on both the labelling queue and the training
\* queue, and no index occurs twice within either queue.
C15_OneQueueAtATime ==
    /\ Range(Indices(labelling_queue)) \cap Range(Indices(training_queue)) = {}
    /\ NoDuplicates(Indices(labelling_queue))
    /\ NoDuplicates(Indices(training_queue))

\* OnlinePredictor and ThresholdLabeller with points on both queues
C15_Witness ==
    /\ predictor = "online"
    /\ Len(labelling_queue) >= 2
    /\ Len(training_queue) >= 2

\* a step of the labelling worker, a step of the prediction worker
LabStep == lab_locals' # lab_locals /\ run_pc' = run_pc
PredStep == pred_locals' # pred_locals /\ run_pc' = run_pc

\* q is what is left of q0 after items were added at its tail only
OnlyPuts(q0, q) == Len(q0) <= Len(q) /\ q0 = SubSeq(q, 1, Len(q0))

\* C16: a step of the labelling worker leaves the model unchanged and
\* removes nothing from the training queue; a step of the prediction worker
\* removes nothing from the labelling queue and leaves training_set and
\* eval_set unchanged; the model changes only in the partial_fit of
\* train_pipeline_model.
C16_SingleWriter ==
    /\ [][LabStep => (model' = model
                      /\ OnlyPuts(training_queue, training_queue'))]_vars
    /\ [][PredStep => (OnlyPuts(labelling_queue, labelling_queue')
                       /\ training_set' = training_set
                       /\ eval_set' = eval_set)]_vars
    /\ [][model' # model =>
            (p_pc = "partial_fit"
             /\ p_calls[Len(p_calls)] = "train_pipeline_model")]_vars

\* the model has been trained twice while both workers were running
C16_Witness ==
    /\ Len(model) >= 2
    /\ l_pc = "put_all"
    /\ p_pc = "do_prediction"

\* C17: when the pipeline is configured and no callback raises, fair
\* scheduling of the prediction worker alone lets it put every stream point
\* and set the stop flag, whatever the labelling worker does; a started
\* prediction worker that has not finished can always take its next step,
\* in particular its put.
C17_PredictionNeverBlocked ==
    /\ ((Configured /\ ~may_raise) =>
            <>(stop_flag /\ p_pc = "done" /\ Len(lq_put) = n_points))
    /\ [](p_pc \notin {"idle", "done", "failed"} => ENABLED PredNext)
    /\ [](p_pc = "put" => ENABLED PredPut)

\* the prediction worker has finished the longest stream while the
\* labelling worker never got beyond its first loop test
C17_Witness ==
    /\ stop_flag
    /\ p_pc = "done"
    /\ n_points = MaxStream
    /\ l_pc = "while"
    /\ lq_got = <<>>
    /\ Len(labelling_queue) = MaxStream

\* C18: with OnlinePredictor, train_pipeline_model is entered only with a
\* non-empty training queue, its get_all never has to wait (the queue holds
\* at least the points it still has to get), and every batch given to
\* partial_fit is non-empty.
C18_NonEmptyBatch ==
    predictor = "online" =>
        /\ p_pc = "get_all" => ~empty(training_queue)
        /\ p_pc = "get" => (p_n >= 1 /\ p_n <= qsize(training_queue))
        /\ p_pc = "partial_fit" => p_points # <<>>
        /\ \A k \in 1..Len(model) : model[k] # <<>>
        /\ ~may_raise => p_pc # "failed"

\* a batch of two points is about to be fitted while the labelling worker is
\* in the middle of put_all
C18_Witness ==
    /\ predictor = "online"
    /\ p_pc = "partial_fit"
    /\ Len(p_points) >= 2
    /\ l_pc = "put_all"

\* indices of all batches the model was trained on, in training order
Trained == Flatten(model)

\* C19: every point of every training batch is in training_set, none is in
\* eval_set or on the labelling queue, and no point is in two batches or
\* twice in one.
C19_TrainOnBoughtOnly ==
    /\ Range(Trained) \subseteq Range(Indices(training_set))
    /\ Range(Indices(p_points)) \subseteq Range(Indices(training_set))
    /\ Range(Trained) \cap Range(Indices(eval_set)) = {}
    /\ Range(Trained) \cap Range(Indices(labelling_queue)) = {}
    /\ NoDuplicates(Trained \o Indices(p_points))

\* two batches were trained on while other points went to eval_set
C19_Witness ==
    /\ predictor = "online"
    /\ Len(model) >= 2
    /\ eval_set # <<>>
    /\ labelling_queue # <<>>

\* C20: when run() has returned, training_set, eval_set and the labelling
\* queue together hold every stream index 0..n_points-1 exactly once.
C20_PartitionAtCompletion ==
    run_pc = "returned" =>
        /\ Len(results[1]) + Len(results[2]) + qsize(labelling_queue)
              = n_points
        /\ Range(Indices(results[1] \o results[2] \o labelling_queue))
              = 0..(n_points - 1)

\* run() has returned with points in each of the three places
C20_Witness ==
    /\ run_pc = "returned"
    /\ results[1] # <<>>
    /\ results[2] # <<>>
    /\ labelling_queue # <<>>

====
